---- MODULE Spec2Model ----
(***************************************************************************)
(* Sequential tool-calling orchestration of the RAG chatbot:               *)
(* RAGSystem.query / _execute_sequential_rounds / _detect_tool_loop        *)
(* (backend/rag_system.py) and AIGenerator.generate_response_with_tools /  *)
(* _handle_tool_execution_sequential / generate_final_response             *)
(* (backend/ai_generator.py).                                              *)
(*                                                                         *)
(* Python values are modelled as tagged records so that values of          *)
(* different Python types can be compared: None, Str(s), List(l).          *)
(***************************************************************************)
EXTENDS Naturals, Sequences, FiniteSets

VARIABLES
    \* ---- locals of one call of RAGSystem.query, per query -----------------
    pc,                   \* position of the query in the code
    query,                \* query(): parameter `query`
    session_id,           \* query(): parameter `session_id`
    history,              \* query(): local `history`
    round_num,            \* _execute_sequential_rounds: loop variable
    accumulated_sources,  \* _execute_sequential_rounds: local
    used_tool_calls,      \* _execute_sequential_rounds: local
    messages,             \* _execute_sequential_rounds: local
    response,             \* _execute_sequential_rounds: local `response` / `final_response`
    content,              \* _handle_tool_execution_sequential: initial_response.content
    block_idx,            \* _handle_tool_execution_sequential: position of the second for loop
    tool_results,         \* _handle_tool_execution_sequential: local
    result,               \* what query() returned to its caller (None while it has not)
    \* ---- state shared by all queries ---------------------------------------
    last_used_tools,      \* AIGenerator.last_used_tools
    last_tool_response,   \* AIGenerator.last_tool_response
    last_tool_results,    \* AIGenerator.last_tool_results
    tm_sources,           \* ToolManager: the per-round source accumulator
    \* ---- observation of the calls made (history variables) -----------------
    gen_calls,            \* per query: the generation requests issued, with their outcome
    tool_calls,           \* per query: the execute_tool calls made
    source_reads,         \* per query: the lists returned by get_last_sources
    fired,                \* per query: the termination conditions that fired
    completed,            \* per query: number of rounds whose messages were appended
    session_calls,        \* the calls made on the SessionManager, in order
    failure,              \* per query: what raised, None if nothing did
    events,               \* per query: every call made on a collaborator, in order
    \* ---- inputs of the loop detector when it is exercised on its own -------
    det,
    \* ---- one call of AIGenerator.generate_response, the single-round path --
    single

vars == << pc, query, session_id, history, round_num, accumulated_sources,
           used_tool_calls, messages, response, content, block_idx,
           tool_results, result, last_used_tools, last_tool_response,
           last_tool_results, tm_sources, gen_calls, tool_calls, source_reads,
           fired, completed, session_calls, failure, events, det, single >>

qlocals == << query, session_id, history, round_num, accumulated_sources,
              used_tool_calls, messages, response, content, block_idx,
              tool_results, result >>

adapter == << last_used_tools, last_tool_response, last_tool_results >>

observed == << gen_calls, tool_calls, source_reads, fired, completed,
               session_calls, failure, events >>

-----------------------------------------------------------------------------
(* Python values *)

None == [none |-> TRUE]
Bool(b) == [bool |-> b]
Str(s) == [str |-> s]
List(l) == [list |-> l]

\* Python truthiness of None, a str or a list (`if session_id:`, `if conversation_history`)
Truthy(v) == v # None /\ v # Str("") /\ v # List(<< >>)

-----------------------------------------------------------------------------
(* Bounds and input domains *)

\* most tool_use blocks in one generation response
MaxTools == 2

Queries == {"qA", "qB"}

QueryTexts == {"what is MCP"}
SessionIds == {None, Str("s1")}
Histories == {Str(""), Str("User: hi")}
Texts == {"answer A", "answer B"}
FinalTexts == {"final answer"}

\* a tool input is a Python dict: here the sequence of its (key, value) items
\* in insertion order, with distinct keys
InputA  == << <<"query", "a">>, <<"course_name", "x">> >>
InputA2 == << <<"course_name", "x">>, <<"query", "a">> >>   \* InputA in another key order
InputB  == << <<"query", "b">> >>
Invocations == { [name |-> "search_course_content", input |-> InputA],
                 [name |-> "search_course_content", input |-> InputA2],
                 [name |-> "search_course_content", input |-> InputB],
                 [name |-> "get_course_outline",    input |-> InputA] }

\* longest invocation list given to the loop detector on its own
MaxCalls == 2

\* invocations for the loop detector: InputA with one key less and with
\* another value under the same keys
InputA_OneKey  == << <<"query", "a">> >>
InputA_OtherValue == << <<"query", "a">>, <<"course_name", "y">> >>
DetectCalls == Invocations \cup
    { [name |-> "search_course_content", input |-> InputA_OneKey],
      [name |-> "search_course_content", input |-> InputA_OtherValue] }

RECURSIVE SeqsUpTo(_, _)
SeqsUpTo(S, n) ==
    IF n = 0 THEN { << >> }
    ELSE LET shorter == SeqsUpTo(S, n - 1)
         IN  shorter \cup { Append(s, x) : s \in shorter, x \in S }

TextBlock(t) == [type |-> "text", text |-> t]
ToolUseBlock(inv, id) ==
    [type |-> "tool_use", name |-> inv.name, input |-> inv.input, id |-> id]

\* content of a tool_use response: an optional leading text block, then the
\* tool_use blocks (possibly none: a tool-use signal without invocation); the
\* correlation id of a block is unique in the response
ToolUseContent(lead, invs) ==
    lead \o [i \in 1..Len(invs) |-> ToolUseBlock(invs[i], <<"toolu", Len(lead) + i>>)]

\* the invocations that follow a leading text block
LeadInvocations == { [name |-> "search_course_content", input |-> InputA],
                     [name |-> "get_course_outline",    input |-> InputA] }

\* tool blocks alone, or a text block followed by tool blocks (or by none)
ToolUseContents ==
    { c \in { ToolUseContent(<< >>, invs) :
                 invs \in SeqsUpTo(Invocations, MaxTools) } : c # << >> }
    \cup
    { ToolUseContent(<< TextBlock("let me search") >>, invs) :
        invs \in SeqsUpTo(LeadInvocations, MaxTools) }

Responses ==
    { [stop_reason |-> "end_turn", content |-> << TextBlock(t) >>] : t \in Texts }
    \cup
    { [stop_reason |-> "tool_use", content |-> c] : c \in ToolUseContents }

\* the responses to the final request: text alone, or text followed by a tool
\* request although no tool was offered
FinalResponses ==
    { [stop_reason |-> "end_turn", content |-> << TextBlock(t) >>] : t \in FinalTexts }
    \cup
    { [stop_reason |-> "tool_use",
       content |-> ToolUseContent(<< TextBlock(t) >>,
                       << [name |-> "search_course_content", input |-> InputA] >>)] :
        t \in FinalTexts }

\* the responses two concurrent queries draw from: a direct answer, a search
\* and an outline request
ConcurrentResponses ==
    { [stop_reason |-> "end_turn", content |-> << TextBlock("answer A") >>],
      [stop_reason |-> "tool_use",
       content |-> ToolUseContent(<< >>, << [name |-> "search_course_content", input |-> InputA] >>)],
      [stop_reason |-> "tool_use",
       content |-> ToolUseContent(<< >>, << [name |-> "get_course_outline", input |-> InputA] >>)] }

-----------------------------------------------------------------------------
(* RAGSystem.query, line 148 *)
Prompt(q) == << "Answer this question about course materials: ", q >>

(* AIGenerator: system_content, lines 177-181 and 264-268 *)
SYSTEM_PROMPT == "You are an AI assistant specialized in course materials"
\* mutant of SystemContent: the history is tested against None, not for truth
SystemContent_NotNone(conversation_history) ==
    IF conversation_history # None
    THEN << SYSTEM_PROMPT, "\n\nPrevious conversation:\n", conversation_history.str >>
    ELSE << SYSTEM_PROMPT >>

SystemContent(conversation_history) ==
    IF Truthy(conversation_history)
    THEN << SYSTEM_PROMPT, "\n\nPrevious conversation:\n", conversation_history.str >>
    ELSE << SYSTEM_PROMPT >>

Placeholder == "Tool execution completed - continuing to next round"

max_rounds == 2


(* RAGSystem.__init__, lines 43-47: the two registered tools, and what
   ToolManager.get_tool_definitions returns for them *)
ToolDefinitions == << "search_course_content", "get_course_outline" >>

-----------------------------------------------------------------------------
(* The Tool Executor (ToolManager, search_tools.py): a tool is a
   deterministic function of its name and input; it returns a string and
   emits citation sources into the per-round accumulator. *)
ToolOutput(name, input) == << "result of", name, input >>

ToolSources(name, input) ==
    IF name = "search_course_content" THEN << << "source", input >> >> ELSE << >>

\* ToolManager.reset_sources
reset_sources(sources) == << >>

\* ToolManager.execute_tool: effect on the source accumulator
execute_tool_sources(sources, name, input) == sources \o ToolSources(name, input)

\* ToolManager.get_last_sources
get_last_sources(sources) == sources

-----------------------------------------------------------------------------
(* Python dict equality on tool inputs: same keys, same value per key *)
DictKeys(d) == { d[i][1] : i \in 1..Len(d) }
DictGet(d, k) == (CHOOSE i \in 1..Len(d) : d[i][1] = k)
\* mutant of DictEq: the items are compared in insertion order
DictEq_Ordered(a, b) == a = b

DictEq(a, b) ==
    /\ DictKeys(a) = DictKeys(b)
    /\ \A k \in DictKeys(a) : a[DictGet(a, k)][2] = b[DictGet(b, k)][2]

\* the if of lines 246-248
CallsMatch(current_call, previous_call) ==
    /\ current_call.name = previous_call.name
    /\ DictEq(current_call.input, previous_call.input)

\* the two nested for loops of lines 244-250, from positions (i, j)
RECURSIVE DetectFrom(_, _, _, _)
DetectFrom(current_calls, previous_calls, i, j) ==
    IF i > Len(current_calls) THEN FALSE
    ELSE IF j > Len(previous_calls)
         THEN DetectFrom(current_calls, previous_calls, i + 1, 1)
    ELSE IF CallsMatch(current_calls[i], previous_calls[j]) THEN TRUE
    ELSE DetectFrom(current_calls, previous_calls, i, j + 1)

_detect_tool_loop(current_calls, previous_calls) ==
    DetectFrom(current_calls, previous_calls, 1, 1)

-----------------------------------------------------------------------------
(* AIGenerator *)

\* mutant of ApiParams: every round sends the initial user message only
ApiParams_InitialOnly(msgs, conversation_history, tools) ==
    [ messages    |-> << msgs[1] >>,
      system      |-> SystemContent(conversation_history),
      tools       |-> IF Truthy(List(tools)) THEN List(tools) ELSE None,
      tool_choice |-> IF Truthy(List(tools)) THEN Str("auto") ELSE None ]

\* api_params of generate_response_with_tools, lines 184-193
ApiParams(msgs, conversation_history, tools) ==
    [ messages    |-> msgs,
      system      |-> SystemContent(conversation_history),
      tools       |-> IF Truthy(List(tools)) THEN List(tools) ELSE None,
      tool_choice |-> IF Truthy(List(tools)) THEN Str("auto") ELSE None ]

\* mutant of FinalParams: only the initial user message is sent
FinalParams_InitialOnly(msgs, conversation_history) ==
    [ messages    |-> << msgs[1] >>,
      system      |-> SystemContent(conversation_history),
      tools       |-> None,
      tool_choice |-> None ]

\* mutant of FinalParams: the final request offers the tools again
FinalParams_WithTools(msgs, conversation_history) ==
    [ messages    |-> msgs,
      system      |-> SystemContent(conversation_history),
      tools       |-> List(ToolDefinitions),
      tool_choice |-> Str("auto") ]

\* final_params of generate_final_response, lines 271-275
FinalParams(msgs, conversation_history) ==
    [ messages    |-> msgs,
      system      |-> SystemContent(conversation_history),
      tools       |-> None,
      tool_choice |-> None ]

\* the first for loop of _handle_tool_execution_sequential, lines 218-224
UsedTools(blocks) ==
    LET tu == SelectSeq(blocks, LAMBDA b : b.type = "tool_use")
    IN  [ i \in 1..Len(tu) |-> [name |-> tu[i].name, input |-> tu[i].input] ]

\* the second for loop, lines 231-232: the next tool_use block at or after i
RECURSIVE NextToolIdx(_, _)
NextToolIdx(blocks, i) ==
    IF i > Len(blocks) THEN i
    ELSE IF blocks[i].type = "tool_use" THEN i
    ELSE NextToolIdx(blocks, i + 1)

\* mutant of ToolResult: every result carries the id of the first content block
ToolResult_FirstId(block, out) ==
    [type |-> "tool_result", tool_use_id |-> << block.id[1], 1 >>, content |-> out]

\* lines 238-242
ToolResult(block, out) ==
    [type |-> "tool_result", tool_use_id |-> block.id, content |-> out]

-----------------------------------------------------------------------------
(* _execute_sequential_rounds: the decisions of lines 198-222 *)

\* mutant of ExtendSources: the round's sources replace the accumulated ones
ExtendSources_Replace(acc, round_sources) == round_sources

\* line 196
ExtendSources(acc, round_sources) == acc \o round_sources

\* mutant of RoundOutcome: the round cap is tested before the loop check
RoundOutcome_CapBeforeLoop(last_used, used, rnd) ==
    IF last_used = << >> THEN "natural"
    ELSE IF rnd >= max_rounds THEN "cap"
    ELSE IF _detect_tool_loop(last_used, used) THEN "loop"
    ELSE "next"

\* mutant of RoundOutcome: the round cap is off by one
RoundOutcome_CapOffByOne(last_used, used, rnd) ==
    IF last_used = << >> THEN "natural"
    ELSE IF _detect_tool_loop(last_used, used) THEN "loop"
    ELSE IF rnd > max_rounds THEN "cap"
    ELSE "next"

\* mutant of RoundOutcome: a round after the first that used no tool goes on
\* to the final synthesis instead of returning
RoundOutcome_FinalAfterLaterRound(last_used, used, rnd) ==
    IF last_used = << >> THEN (IF rnd = 1 THEN "natural" ELSE "cap")
    ELSE IF _detect_tool_loop(last_used, used) THEN "loop"
    ELSE IF rnd >= max_rounds THEN "cap"
    ELSE "next"

\* mutant of RoundOutcome: a round that used no tool returns only at the cap
RoundOutcome_NaturalOnlyAtCap(last_used, used, rnd) ==
    IF last_used = << >> /\ rnd >= max_rounds THEN "natural"
    ELSE IF _detect_tool_loop(last_used, used) THEN "loop"
    ELSE IF rnd >= max_rounds THEN "cap"
    ELSE "next"

\* mutant of RoundOutcome: the round's invocations are added to the history
\* before the loop check, so they are compared with themselves
RoundOutcome_ComparedWithItself(last_used, used, rnd) ==
    IF last_used = << >> THEN "natural"
    ELSE IF _detect_tool_loop(last_used, used \o last_used) THEN "loop"
    ELSE IF rnd >= max_rounds THEN "cap"
    ELSE "next"

\* which exit lines 199-222 take: "natural" (return, 201), "loop" (break, 207),
\* "cap" (break, 222) or "next" (the loop goes on)
RoundOutcome(last_used, used, rnd) ==
    IF last_used = << >> THEN "natural"
    ELSE IF _detect_tool_loop(last_used, used) THEN "loop"
    ELSE IF rnd >= max_rounds THEN "cap"
    ELSE "next"

\* mutant of AppendRound: the batched tool results are not appended
AppendRound_AssistantOnly(msgs, tool_response, results) ==
    msgs \o << [role |-> "assistant", content |-> tool_response] >>

\* mutant of AppendRound: one user message per tool result
AppendRound_PerResult(msgs, tool_response, results) ==
    msgs \o << [role |-> "assistant", content |-> tool_response] >>
         \o [ i \in 1..Len(results.list) |->
                [role |-> "user", content |-> List(<< results.list[i] >>)] ]

\* mutant of AppendRound: the transcript is rebuilt from the initial message
\* and the current round only
AppendRound_DropEarlierRounds(msgs, tool_response, results) ==
    << msgs[1], [role |-> "assistant", content |-> tool_response],
                [role |-> "user",      content |-> results] >>

\* lines 213-218
AppendRound(msgs, tool_response, results) ==
    msgs \o << [role |-> "assistant", content |-> tool_response],
               [role |-> "user",      content |-> results] >>

\* mutant of MessagesAfterRound: the round's messages are appended before
\* the loop check
MessagesAfterRound_BeforeLoopCheck(outcome, msgs, tool_response, results) ==
    IF outcome \in {"cap", "next", "loop"}
    THEN msgs \o << [role |-> "assistant", content |-> tool_response],
                    [role |-> "user",      content |-> results] >>
    ELSE msgs

\* mutant of MessagesAfterRound: the break at the cap comes before the append
MessagesAfterRound_CapDiscards(outcome, msgs, tool_response, results) ==
    IF outcome = "next"
    THEN msgs \o << [role |-> "assistant", content |-> tool_response],
                    [role |-> "user",      content |-> results] >>
    ELSE msgs

\* `messages` after lines 198-222: extended only when the round neither
\* returned (201) nor broke at the loop check (207)
MessagesAfterRound(outcome, msgs, tool_response, results) ==
    IF outcome \in {"cap", "next"}
    THEN AppendRound(msgs, tool_response, results)
    ELSE msgs

\* mutant of SourcesAfterRound: a loop-detected round's sources are dropped
SourcesAfterRound_DropOnLoop(outcome, acc, round_sources) ==
    IF outcome = "loop" THEN acc ELSE ExtendSources(acc, round_sources)

\* `accumulated_sources` after lines 195-196, which come before the exits of
\* lines 198-222: extended whatever the round's outcome
SourcesAfterRound(outcome, acc, round_sources) == ExtendSources(acc, round_sources)

\* `used_tool_calls` after lines 198-222: line 210 is reached like lines 213-218
UsedAfterRound(outcome, used, last_used) ==
    IF outcome \in {"cap", "next"} THEN used \o last_used ELSE used

-----------------------------------------------------------------------------
(* Initial state: the RAGSystem and its AIGenerator as constructed
   (ai_generator.py lines 57-59), no query running *)

NoDet == [current |-> << >>, previous |-> << >>, given |-> << << >>, << >> >>, out |-> None]

\* generate_response is not called
NoSingle ==
    [ pc |-> "off", query |-> None, conversation_history |-> None,
      tools |-> None, tool_manager |-> None, api_params |-> None,
      content |-> << >>, block_idx |-> 0, messages |-> << >>,
      tool_results |-> << >>, create_calls |-> << >>, executed |-> << >>,
      failure |-> None, out |-> None ]

InitRest ==
    /\ query = [q \in Queries |-> None]
    /\ session_id = [q \in Queries |-> None]
    /\ history = [q \in Queries |-> None]
    /\ round_num = [q \in Queries |-> 0]
    /\ accumulated_sources = [q \in Queries |-> << >>]
    /\ used_tool_calls = [q \in Queries |-> << >>]
    /\ messages = [q \in Queries |-> << >>]
    /\ response = [q \in Queries |-> None]
    /\ content = [q \in Queries |-> << >>]
    /\ block_idx = [q \in Queries |-> 0]
    /\ tool_results = [q \in Queries |-> << >>]
    /\ result = [q \in Queries |-> None]
    /\ last_used_tools = << >>
    /\ last_tool_response = None
    /\ last_tool_results = None
    /\ tm_sources = << >>
    /\ gen_calls = [q \in Queries |-> << >>]
    /\ tool_calls = [q \in Queries |-> << >>]
    /\ source_reads = [q \in Queries |-> << >>]
    /\ fired = [q \in Queries |-> { }]
    /\ completed = [q \in Queries |-> 0]
    /\ session_calls = << >>
    /\ failure = [q \in Queries |-> None]
    /\ events = [q \in Queries |-> << >>]

\* one query is made; the second caller never arrives
InitSystem ==
    /\ pc = [q \in Queries |-> IF q = "qA" THEN "idle" ELSE "off"]
    /\ InitRest

Init == InitSystem /\ det = NoDet /\ single = NoSingle

\* two callers hold the same RAGSystem (one AIGenerator, one ToolManager) and
\* each makes a query
InitConcurrent ==
    /\ pc = [q \in Queries |-> "idle"]
    /\ InitRest
    /\ det = NoDet
    /\ single = NoSingle

\* whether the second caller takes part in this run (pc never returns to "off")
Concurrent == pc["qB"] # "off"

\* the session ids callers pass: concurrent callers pass none
SessionsOffered == IF Concurrent THEN {None} ELSE SessionIds

\* what client.messages.create may return to the final request
FinalResponsesOffered ==
    IF Concurrent
    THEN { r \in FinalResponses : r.stop_reason = "end_turn" }
    ELSE FinalResponses

\* what client.messages.create may return to a tools-enabled request
ResponsesOffered == IF Concurrent THEN ConcurrentResponses ELSE Responses

-----------------------------------------------------------------------------
(* the calls a step makes, in the order it makes them: `round` is the value
   of round_num when the call is made, 0 outside the loop *)
Event(op, rnd) == [op |-> op, round |-> rnd]

SessionEvents(calls) == [i \in 1..Len(calls) |-> Event(calls[i].op, 0)]

\* mutant of GetHistory: the history is looked up whatever the session id
GetHistory_Unconditional(q, sid) ==
    << [op |-> "get_conversation_history", by |-> q, session_id |-> sid] >>

(* RAGSystem.query lines 152-153: `if self.session_manager and session_id` *)
GetHistory(q, sid) ==
    IF Truthy(sid)
    THEN << [op |-> "get_conversation_history", by |-> q, session_id |-> sid] >>
    ELSE << >>

\* mutant of AddExchange: the two texts are passed in the other order
AddExchange_Swapped(q) ==
    IF Truthy(session_id[q])
    THEN << [op |-> "add_exchange", by |-> q, session_id |-> session_id[q],
             query |-> response[q], answer |-> query[q]] >>
    ELSE << >>

\* mutant of AddExchange: the exchange is stored a second time
AddExchange_Twice(q) ==
    IF Truthy(session_id[q])
    THEN << [op |-> "add_exchange", by |-> q, session_id |-> session_id[q],
             query |-> query[q], answer |-> response[q]],
            [op |-> "add_exchange", by |-> q, session_id |-> session_id[q],
             query |-> query[q], answer |-> response[q]] >>
    ELSE << >>

(* RAGSystem.query lines 159-160 *)
AddExchange(q) ==
    IF Truthy(session_id[q])
    THEN << [op |-> "add_exchange", by |-> q, session_id |-> session_id[q],
             query |-> query[q], answer |-> response[q]] >>
    ELSE << >>

(* RAGSystem.query lines 147-156 and _execute_sequential_rounds lines
   177-180: the prompt, the history lookup, the locals of the round loop *)
StartQuery(q) ==
    /\ pc[q] = "idle"
    /\ \E text \in QueryTexts, sid \in SessionsOffered, stored \in Histories :
        /\ query' = [query EXCEPT ![q] = Str(text)]
        /\ session_id' = [session_id EXCEPT ![q] = sid]
        /\ history' = [history EXCEPT ![q] = IF Truthy(sid) THEN stored ELSE None]
        /\ session_calls' = session_calls \o GetHistory(q, sid)
        /\ events' = [events EXCEPT ![q] = @ \o SessionEvents(GetHistory(q, sid))]
        /\ messages' = [messages EXCEPT ![q] =
                           << [role |-> "user", content |-> Str(Prompt(text))] >>]
    /\ accumulated_sources' = [accumulated_sources EXCEPT ![q] = << >>]
    /\ used_tool_calls' = [used_tool_calls EXCEPT ![q] = << >>]
    /\ round_num' = [round_num EXCEPT ![q] = 1]
    /\ pc' = [pc EXCEPT ![q] = "reset"]
    /\ UNCHANGED << response, content, block_idx, tool_results, result,
                    adapter, tm_sources, gen_calls, tool_calls, source_reads,
                    fired, completed, failure, det, single >>

\* mutant of ResetSources: the accumulator is reset before the loop, not in it
ResetSources_OnlyFirstRound(q) ==
    /\ pc[q] = "reset"
    /\ IF round_num[q] = 1
       THEN /\ tm_sources' = reset_sources(tm_sources)
            /\ events' = [events EXCEPT ![q] =
                             Append(@, Event("reset_sources", round_num[q]))]
       ELSE UNCHANGED << tm_sources, events >>
    /\ pc' = [pc EXCEPT ![q] = "generate"]
    /\ UNCHANGED << qlocals, adapter, gen_calls, tool_calls, source_reads, fired,
                    completed, session_calls, failure, det, single >>

(* line 184 *)
ResetSources(q) ==
    /\ pc[q] = "reset"
    /\ tm_sources' = reset_sources(tm_sources)
    /\ pc' = [pc EXCEPT ![q] = "generate"]
    /\ events' = [events EXCEPT ![q] = Append(@, Event("reset_sources", round_num[q]))]
    /\ UNCHANGED << qlocals, adapter, gen_calls, tool_calls, source_reads, fired,
                    completed, session_calls, failure, det, single >>

\* mutant of GenerationRaises: the exception is caught and the call is made
\* again
GenerationRaises_Retried(q) ==
    UNCHANGED << failure, pc, response >>

\* mutant of GenerationRaises: the exception is caught and an apology is
\* returned as the answer
GenerationRaises_Swallowed(q) ==
    /\ response' = [response EXCEPT ![q] = Str("Sorry, something went wrong")]
    /\ pc' = [pc EXCEPT ![q] = "return"]
    /\ UNCHANGED failure

(* ai_generator.py lines 196 and 279 when client.messages.create raises:
   neither generate_response_with_tools, generate_final_response,
   _execute_sequential_rounds nor query has a try block around the call *)
GenerationRaises(q) ==
    /\ failure' = [failure EXCEPT ![q] = Str("generation")]
    /\ pc' = [pc EXCEPT ![q] = "failed"]
    /\ UNCHANGED response

\* mutant of ResetTracking: the fields keep what the previous call recorded
ResetTracking_Skipped(used, tool_response, results) ==
    << used, tool_response, results >>

(* ai_generator.py lines 171-174: last_used_tools, last_tool_response and
   last_tool_results after the reset, whatever they held *)
ResetTracking(used, tool_response, results) == << << >>, None, None >>

(* lines 187-192 into generate_response_with_tools, ai_generator.py lines
   171-203 and 217-227: the tracking fields are reset, the request is sent,
   and the response either raises, is returned as text, or starts the tool
   executions *)
GenerateWithToolsFrom(q, responses) ==
    /\ pc[q] = "generate"
    /\ LET params == ApiParams(messages[q], history[q], ToolDefinitions)
           call(outcome) == [kind |-> "tools", round |-> round_num[q],
                             params |-> params, outcome |-> outcome]
           reset == ResetTracking(last_used_tools, last_tool_response,
                                  last_tool_results)
       IN
       \/ \* client.messages.create raises
          /\ gen_calls' = [gen_calls EXCEPT ![q] = Append(@, call(None))]
          /\ last_used_tools' = reset[1]
          /\ last_tool_response' = reset[2]
          /\ last_tool_results' = reset[3]
          /\ GenerationRaises(q)
          /\ events' = [events EXCEPT ![q] =
                           @ \o << Event("generate", round_num[q]),
                                   Event("generate_raised", round_num[q]) >>]
          /\ UNCHANGED << content, block_idx, tool_results >>
       \/ \E r \in responses :
          /\ gen_calls' = [gen_calls EXCEPT ![q] = Append(@, call(r))]
          /\ IF r.stop_reason = "tool_use"     \* `and tool_manager`: always given
             THEN /\ last_used_tools' = UsedTools(r.content)
                  /\ last_tool_response' = List(r.content)
                  /\ last_tool_results' = reset[3]
                  /\ content' = [content EXCEPT ![q] = r.content]
                  /\ block_idx' = [block_idx EXCEPT ![q] = 1]
                  /\ tool_results' = [tool_results EXCEPT ![q] = << >>]
                  /\ pc' = [pc EXCEPT ![q] = "exec"]
                  /\ events' = [events EXCEPT ![q] =
                                   Append(@, Event("generate", round_num[q]))]
                  /\ UNCHANGED response
             ELSE /\ last_used_tools' = reset[1]
                  /\ last_tool_response' = reset[2]
                  /\ last_tool_results' = reset[3]
                  /\ response' = [response EXCEPT ![q] = Str(r.content[1].text)]
                  /\ pc' = [pc EXCEPT ![q] = "read"]
                  /\ events' = [events EXCEPT ![q] =
                                   @ \o << Event("generate", round_num[q]),
                                           Event("generate_returned", round_num[q]) >>]
                  /\ UNCHANGED << content, block_idx, tool_results >>
          /\ UNCHANGED failure
    /\ UNCHANGED << query, session_id, history, round_num, accumulated_sources,
                    used_tool_calls, messages, result, tm_sources, tool_calls,
                    source_reads, fired, completed, session_calls, det, single >>

GenerateWithTools(q) == GenerateWithToolsFrom(q, ResponsesOffered)

(* mutant of ToolRaises: the exception is caught and the block is skipped *)
ToolRaises_Skipped(q) ==
    /\ block_idx' = [block_idx EXCEPT ![q] = NextToolIdx(content[q], block_idx[q]) + 1]
    /\ UNCHANGED << pc, failure, tm_sources, tool_results >>

(* mutant of ToolRaises: the exception is caught and becomes the tool's result *)
ToolRaises_Caught(q) ==
    LET i == NextToolIdx(content[q], block_idx[q])
        b == content[q][i]
    IN  /\ tool_results' = [tool_results EXCEPT ![q] =
                              Append(@, [type |-> "tool_result", tool_use_id |-> b.id,
                                         content |-> << "error" >>])]
        /\ block_idx' = [block_idx EXCEPT ![q] = i + 1]
        /\ UNCHANGED << pc, failure, tm_sources >>

(* ai_generator.py line 233 when execute_tool raises: nothing catches it in
   _handle_tool_execution_sequential, generate_response_with_tools (200),
   _execute_sequential_rounds (187) or query (156) *)
ToolRaises(q) ==
    /\ failure' = [failure EXCEPT ![q] = Str("tool")]
    /\ pc' = [pc EXCEPT ![q] = "failed"]
    /\ UNCHANGED << tm_sources, tool_results, block_idx >>

(* ai_generator.py lines 231-242: one pass of the second for loop that
   reaches a tool_use block; execute_tool returns or raises *)
ExecuteTool(q) ==
    /\ pc[q] = "exec"
    /\ LET i == NextToolIdx(content[q], block_idx[q]) IN
       /\ i <= Len(content[q])
       /\ LET b == content[q][i]
              call(raised) == [round |-> round_num[q], name |-> b.name,
                               input |-> b.input, id |-> b.id, raised |-> raised]
          IN
          \/ /\ tool_calls' = [tool_calls EXCEPT ![q] = Append(@, call(FALSE))]
             /\ tm_sources' = execute_tool_sources(tm_sources, b.name, b.input)
             /\ tool_results' = [tool_results EXCEPT ![q] =
                                   Append(@, ToolResult(b, ToolOutput(b.name, b.input)))]
             /\ block_idx' = [block_idx EXCEPT ![q] = i + 1]
             /\ UNCHANGED << pc, failure >>
          \/ /\ tool_calls' = [tool_calls EXCEPT ![q] = Append(@, call(TRUE))]
             /\ ToolRaises(q)
    /\ events' = [events EXCEPT ![q] = Append(@, Event("execute_tool", round_num[q]))]
    /\ UNCHANGED << query, session_id, history, round_num, accumulated_sources,
                    used_tool_calls, messages, response, content, result,
                    adapter, gen_calls, source_reads, fired, completed,
                    session_calls, det, single >>

(* ai_generator.py lines 245-249: the for loop is over *)
FinishToolExecution(q) ==
    /\ pc[q] = "exec"
    /\ NextToolIdx(content[q], block_idx[q]) > Len(content[q])
    /\ last_tool_results' = List(tool_results[q])
    /\ response' = [response EXCEPT ![q] = Str(Placeholder)]
    /\ pc' = [pc EXCEPT ![q] = "read"]
    /\ UNCHANGED << query, session_id, history, round_num, accumulated_sources,
                    used_tool_calls, messages, content, block_idx, tool_results,
                    result, last_used_tools, last_tool_response, tm_sources,
                    gen_calls, tool_calls, source_reads, fired, completed,
                    session_calls, failure, det, single >>
    /\ events' = [events EXCEPT ![q] = Append(@, Event("generate_returned", round_num[q]))]

(* rag_system.py lines 194-222: the sources of the round are read and
   appended, then the round ends by one of its four exits: return (201),
   break on a loop (207), break at the cap (222), or the next iteration *)
EndRound(q) ==
    /\ pc[q] = "read"
    /\ LET round_sources == get_last_sources(tm_sources)
           outcome == RoundOutcome(last_used_tools, used_tool_calls[q], round_num[q])
       IN
       /\ source_reads' = [source_reads EXCEPT ![q] = Append(@, round_sources)]
       /\ events' = [events EXCEPT ![q] = Append(@, Event("get_last_sources", round_num[q]))]
       /\ accumulated_sources' = [accumulated_sources EXCEPT ![q] =
                                     SourcesAfterRound(outcome, @, round_sources)]
       /\ used_tool_calls' = [used_tool_calls EXCEPT ![q] =
                                UsedAfterRound(outcome, @, last_used_tools)]
       /\ messages' = [messages EXCEPT ![q] =
                         MessagesAfterRound(outcome, @, last_tool_response,
                                            last_tool_results)]
       /\ completed' = [completed EXCEPT ![q] =
                          IF outcome \in {"cap", "next"} THEN @ + 1 ELSE @]
       /\ fired' = [fired EXCEPT ![q] =
                      IF outcome = "next" THEN @ ELSE @ \cup {outcome}]
       /\ round_num' = [round_num EXCEPT ![q] =
                          IF outcome = "next" THEN @ + 1 ELSE @]
       /\ pc' = [pc EXCEPT ![q] =
                   CASE outcome = "natural" -> "return"
                     [] outcome = "next"    -> "reset"
                     [] OTHER               -> "final"]
    /\ UNCHANGED << query, session_id, history, response, content, block_idx,
                    tool_results, result, adapter, tm_sources, gen_calls,
                    tool_calls, session_calls, failure, det, single >>

\* mutant of FinalText: a tool_use response is dispatched to the tool handler
\* as in generate_response_with_tools
FinalText_ToolUseDispatched(r) ==
    IF r.stop_reason = "tool_use" THEN Str(Placeholder) ELSE Str(r.content[1].text)

\* ai_generator.py line 279: final_response.content[0].text
FinalText(r) == Str(r.content[1].text)

(* rag_system.py lines 225-229 into generate_final_response,
   ai_generator.py lines 263-279 *)
FinalResponse(q) ==
    /\ pc[q] = "final"
    /\ LET params == FinalParams(messages[q], history[q])
           call(outcome) == [kind |-> "final", round |-> round_num[q],
                             params |-> params, outcome |-> outcome]
       IN
       \/ /\ gen_calls' = [gen_calls EXCEPT ![q] = Append(@, call(None))]
          /\ GenerationRaises(q)
          /\ events' = [events EXCEPT ![q] =
                           @ \o << Event("final", 0), Event("final_raised", 0) >>]
       \/ \E r \in FinalResponsesOffered :
          /\ gen_calls' = [gen_calls EXCEPT ![q] = Append(@, call(r))]
          /\ response' = [response EXCEPT ![q] = FinalText(r)]
          /\ pc' = [pc EXCEPT ![q] = "return"]
          /\ events' = [events EXCEPT ![q] =
                           @ \o << Event("final", 0), Event("final_returned", 0) >>]
          /\ UNCHANGED failure
    /\ UNCHANGED << query, session_id, history, round_num, accumulated_sources,
                    used_tool_calls, messages, content, block_idx, tool_results,
                    result, adapter, tm_sources, tool_calls, source_reads,
                    fired, completed, session_calls, det, single >>

(* RAGSystem.query lines 158-162 *)
FinishQuery(q) ==
    /\ pc[q] = "return"
    /\ session_calls' = session_calls \o AddExchange(q)
    /\ events' = [events EXCEPT ![q] = @ \o SessionEvents(AddExchange(q))]
    /\ result' = [result EXCEPT ![q] =
                     [answer |-> response[q], sources |-> accumulated_sources[q]]]
    /\ pc' = [pc EXCEPT ![q] = "done"]
    /\ UNCHANGED << query, session_id, history, round_num, accumulated_sources,
                    used_tool_calls, messages, response, content, block_idx,
                    tool_results, adapter, tm_sources, gen_calls, tool_calls,
                    source_reads, fired, completed, failure, det, single >>

-----------------------------------------------------------------------------
(* RAGSystem._detect_tool_loop called on its own, as the tests
   test_loop_prevention_same_tool_same_params and
   test_no_loop_different_tool_params do: `given` keeps the two argument
   lists as they were passed *)
InitDetect ==
    /\ InitSystem
    /\ det \in { [current |-> c, previous |-> p, given |-> << c, p >>, out |-> None] :
                   c \in SeqsUpTo(DetectCalls, MaxCalls),
                   p \in SeqsUpTo(DetectCalls, MaxCalls) }
    /\ single = NoSingle

DetectToolLoop ==
    /\ det.out = None
    /\ det' = [det EXCEPT !.out = Bool(_detect_tool_loop(det.current, det.previous))]
    /\ UNCHANGED << pc, qlocals, adapter, tm_sources, observed, single >>

SpecDetect == InitDetect /\ [][DetectToolLoop]_vars

-----------------------------------------------------------------------------
(* AIGenerator.generate_response, ai_generator.py lines 61-105, and
   _handle_tool_execution, lines 107-153: the single-round path, called on
   its own.  It reads and writes none of the tracking fields of the adapter,
   and its locals are the fields of `single`. *)

\* the arguments of the call: `conversation_history`, `tools` and
\* `tool_manager` are optional (lines 62-64)
SingleHistories == {None, Str(""), Str("User: hi")}
SingleTools == {None, List(<< >>), List(ToolDefinitions)}
SingleToolManagers == {None, Str("ToolManager")}

\* api_params of generate_response, lines 86-95
SingleApiParams(query_text, conversation_history, tools) ==
    [ messages    |-> << [role |-> "user", content |-> query_text] >>,
      system      |-> SystemContent(conversation_history),
      tools       |-> IF Truthy(tools) THEN tools ELSE None,
      tool_choice |-> IF Truthy(tools) THEN Str("auto") ELSE None ]

\* mutant of HandlesTools: a tool_use response is handled without a manager
HandlesTools_WithoutManager(r, tool_manager) == r.stop_reason = "tool_use"

\* line 101: `if response.stop_reason == "tool_use" and tool_manager`
HandlesTools(r, tool_manager) ==
    r.stop_reason = "tool_use" /\ Truthy(tool_manager)

\* lines 105 and 153: `content[0].text` exists on a text block only
HasText(r) == r.content # << >> /\ r.content[1].type = "text"

\* lines 119-122: the messages of the request and the assistant's response
AppendAssistant(msgs, initial_content) ==
    msgs \o << [role |-> "assistant", content |-> List(initial_content)] >>

\* mutant of AppendResults: the results message is appended even when empty
AppendResults_Always(msgs, results) ==
    msgs \o << [role |-> "user", content |-> List(results)] >>

\* mutant of AppendResults: one user message per result
AppendResults_PerResult(msgs, results) ==
    msgs \o [ i \in 1..Len(results) |->
                [role |-> "user", content |-> List(<< results[i] >>)] ]

\* lines 140-142: `if tool_results: messages.append(...)`
AppendResults(msgs, results) ==
    IF results # << >>
    THEN msgs \o << [role |-> "user", content |-> List(results)] >>
    ELSE msgs

\* mutant of FollowUpParams: the follow-up request offers the tools again
FollowUpParams_WithTools(msgs, base_params) ==
    [ messages    |-> msgs,
      system      |-> base_params.system,
      tools       |-> base_params.tools,
      tool_choice |-> base_params.tool_choice ]

\* final_params of _handle_tool_execution, lines 145-149
FollowUpParams(msgs, base_params) ==
    [ messages    |-> msgs,
      system      |-> base_params.system,
      tools       |-> None,
      tool_choice |-> None ]

InitSingle ==
    /\ pc = [q \in Queries |-> "off"]
    /\ InitRest
    /\ det = NoDet
    /\ single \in { [NoSingle EXCEPT !.pc = "call", !.query = Str(text),
                                     !.conversation_history = h,
                                     !.tools = tools, !.tool_manager = tm] :
                      text \in QueryTexts, h \in SingleHistories,
                      tools \in SingleTools, tm \in SingleToolManagers }

(* generate_response, lines 78-105, and lines 119-125 of
   _handle_tool_execution when the response is handed to it: the request is
   built and sent; the call raises, or the response is dispatched *)
GenerateResponse ==
    /\ single.pc = "call"
    /\ LET api_params == SingleApiParams(single.query, single.conversation_history,
                                         single.tools)
           sent(outcome) == [single EXCEPT
                                !.api_params = api_params,
                                !.create_calls = Append(@, [params |-> api_params,
                                                            outcome |-> outcome])]
       IN
       \/ single' = [sent(None) EXCEPT !.failure = Str("generation"), !.pc = "failed"]
       \/ \E r \in Responses :
            single' =
              IF HandlesTools(r, single.tool_manager)
              THEN [sent(r) EXCEPT !.content = r.content,
                                   !.block_idx = 1,
                                   !.messages = AppendAssistant(api_params.messages, r.content),
                                   !.tool_results = << >>,
                                   !.pc = "exec"]
              ELSE IF HasText(r)
              THEN [sent(r) EXCEPT !.out = Str(r.content[1].text), !.pc = "done"]
              ELSE [sent(r) EXCEPT !.failure = Str("AttributeError"), !.pc = "failed"]
    /\ UNCHANGED << pc, qlocals, adapter, tm_sources, observed, det >>

(* _handle_tool_execution, lines 126-138: one pass of the for loop that
   reaches a tool_use block; execute_tool returns or raises *)
HandleToolExecution ==
    /\ single.pc = "exec"
    /\ LET i == NextToolIdx(single.content, single.block_idx) IN
       /\ i <= Len(single.content)
       /\ LET b == single.content[i]
              call(raised) == [name |-> b.name, input |-> b.input, id |-> b.id,
                               raised |-> raised]
          IN
          \/ /\ single' = [single EXCEPT
                              !.executed = Append(@, call(FALSE)),
                              !.tool_results = Append(@, ToolResult(b, ToolOutput(b.name, b.input))),
                              !.block_idx = i + 1]
             /\ tm_sources' = execute_tool_sources(tm_sources, b.name, b.input)
          \/ /\ single' = [single EXCEPT
                              !.executed = Append(@, call(TRUE)),
                              !.failure = Str("tool"),
                              !.pc = "failed"]
             /\ UNCHANGED tm_sources
    /\ UNCHANGED << pc, qlocals, adapter, observed, det >>

(* _handle_tool_execution, lines 140-153: the loop is over; the results
   message is appended if there is a result, the follow-up request is sent
   and its text returned *)
FollowUpResponse ==
    /\ single.pc = "exec"
    /\ NextToolIdx(single.content, single.block_idx) > Len(single.content)
    /\ LET msgs == AppendResults(single.messages, single.tool_results)
           final_params == FollowUpParams(msgs, single.api_params)
           sent(outcome) == [single EXCEPT
                                !.messages = msgs,
                                !.create_calls = Append(@, [params |-> final_params,
                                                            outcome |-> outcome])]
       IN
       \/ single' = [sent(None) EXCEPT !.failure = Str("generation"), !.pc = "failed"]
       \/ \E r \in FinalResponses :
            single' = [sent(r) EXCEPT !.out = FinalText(r), !.pc = "done"]
    /\ UNCHANGED << pc, qlocals, adapter, tm_sources, observed, det >>

NextSingle ==
    \/ GenerateResponse
    \/ HandleToolExecution
    \/ FollowUpResponse

SpecSingle == InitSingle /\ [][NextSingle]_vars

-----------------------------------------------------------------------------
Next ==
    \E q \in Queries :
        \/ StartQuery(q)
        \/ ResetSources(q)
        \/ GenerateWithTools(q)
        \/ ExecuteTool(q)
        \/ FinishToolExecution(q)
        \/ EndRound(q)
        \/ FinalResponse(q)
        \/ FinishQuery(q)

Spec == Init /\ [][Next]_vars

SpecConcurrent == InitConcurrent /\ [][Next]_vars

\* the responses of a run in which termination is checked: those of
\* Responses that do not open with a text block before a tool request
FairResponses ==
    { r \in Responses : r.stop_reason = "tool_use" /\ Len(r.content) > 1
                            => r.content[1].type = "tool_use" }

NextFair ==
    \E q \in Queries :
        \/ StartQuery(q)
        \/ ResetSources(q)
        \/ GenerateWithToolsFrom(q, FairResponses)
        \/ ExecuteTool(q)
        \/ FinishToolExecution(q)
        \/ EndRound(q)
        \/ FinalResponse(q)
        \/ FinishQuery(q)

\* a query is a single thread of control: each call it makes returns or
\* raises, and the statement after it is then executed
SpecFair == Init /\ [][NextFair]_vars /\ WF_vars(NextFair)

-----------------------------------------------------------------------------
(* Vocabulary of the properties *)

\* the generation requests of q made with tools enabled, and those without
ToolsCalls(q) == SelectSeq(gen_calls[q], LAMBDA c : c.kind = "tools")
FinalCalls(q) == SelectSeq(gen_calls[q], LAMBDA c : c.kind = "final")
Last(s) == s[Len(s)]

\* a generation response that holds at least one tool-invocation block
RequestsTools(r) == \E i \in 1..Len(r.content) : r.content[i].type = "tool_use"

\* the text of a generation response: that of its first content block
ResponseText(r) ==
    IF Len(r.content) > 0 /\ r.content[1].type = "text"
    THEN Str(r.content[1].text) ELSE Str("")

\* _execute_sequential_rounds has returned to query()
Returned(q) == pc[q] \in {"return", "done"}

RECURSIVE Flatten(_)
Flatten(ss) == IF ss = << >> THEN << >> ELSE Head(ss) \o Flatten(Tail(ss))

\* two tool inputs are the same mapping: the same set of (key, value) items
SameMapping(a, b) == { a[i] : i \in 1..Len(a) } = { b[i] : i \in 1..Len(b) }

\* the (name, input) invocations requested by a response, as a set of positions
ToolBlocks(r) == { i \in 1..Len(r.content) : r.content[i].type = "tool_use" }

\* some invocation of response r2 repeats an invocation of response r1
Repeats(r2, r1) ==
    \E i \in ToolBlocks(r2), j \in ToolBlocks(r1) :
        /\ r2.content[i].name = r1.content[j].name
        /\ SameMapping(r2.content[i].input, r1.content[j].input)

-----------------------------------------------------------------------------
\* C1: one run of _execute_sequential_rounds makes at most 2 tools-enabled
\* generation calls; when the run has returned and every round's response
\* requested tools, it made exactly 2 of them, followed by exactly one
\* tools-disabled call.
C1_AtMostTwoToolRounds ==
    \A q \in Queries :
        /\ Len(ToolsCalls(q)) <= max_rounds
        /\ ( /\ Returned(q)
             /\ \A i \in 1..Len(ToolsCalls(q)) : RequestsTools(ToolsCalls(q)[i].outcome) )
           => /\ Len(gen_calls[q]) = 3
              /\ gen_calls[q][1].kind = "tools"
              /\ gen_calls[q][2].kind = "tools"
              /\ gen_calls[q][3].kind = "final"

\* a query whose two rounds both requested distinct tools has returned
C1_Witness ==
    /\ pc["qA"] = "done"
    /\ Len(ToolsCalls("qA")) = 2
    /\ RequestsTools(ToolsCalls("qA")[1].outcome)
    /\ RequestsTools(ToolsCalls("qA")[2].outcome)
    /\ fired["qA"] = {"cap"}

\* C2: when the round loop was left by loop detection or at the round cap,
\* exactly one tools-disabled generation call was made, after every
\* tools-enabled call; it received the current transcript and the history, and
\* the query returns its text together with the accumulated sources.
C2_FinalSynthesisAfterBreak ==
    \A q \in Queries :
      /\ Len(FinalCalls(q)) <= 1
      /\ FinalCalls(q) # << >> => fired[q] \cap {"loop", "cap"} # { }
      /\ ( Returned(q) /\ fired[q] \cap {"loop", "cap"} # { } ) =>
            /\ Len(FinalCalls(q)) = 1
            /\ Last(gen_calls[q]).kind = "final"
            /\ Last(gen_calls[q]).params.messages = messages[q]
            /\ Last(gen_calls[q]).params.system = SystemContent(history[q])
            /\ response[q] = ResponseText(Last(gen_calls[q]).outcome)
            /\ pc[q] = "done" =>
                 result[q] = [answer  |-> ResponseText(Last(gen_calls[q]).outcome),
                              sources |-> accumulated_sources[q]]

\* a query that was stopped by loop detection, with a history, has returned
\* the final call's text and round-1 sources
C2_Witness ==
    /\ pc["qA"] = "done"
    /\ fired["qA"] = {"loop"}
    /\ history["qA"] = Str("User: hi")
    /\ result["qA"].sources # << >>
    /\ Len(messages["qA"]) = 3

\* C3: when a round's generation response requests no tool, the query
\* returns that response's text with the sources accumulated so far, and no
\* generation call follows (no later round, no final synthesis).
C3_NaturalTerminationReturnsResponseText ==
    \A q \in Queries :
        \A k \in 1..Len(ToolsCalls(q)) :
            LET r == ToolsCalls(q)[k].outcome IN
            ( r # None /\ ~RequestsTools(r) /\ pc[q] \notin {"read", "exec"} ) =>
                /\ k = Len(ToolsCalls(q))
                /\ FinalCalls(q) = << >>
                /\ Returned(q)
                /\ response[q] = ResponseText(r)
                /\ pc[q] = "done" =>
                     result[q] = [answer  |-> ResponseText(r),
                                  sources |-> accumulated_sources[q]]

\* the part of C3 the code satisfies: after a response without tool request
\* no generation call follows and the sources accumulated so far are returned
C3_NoCallAfterNaturalTermination ==
    \A q \in Queries :
        \A k \in 1..Len(ToolsCalls(q)) :
            LET r == ToolsCalls(q)[k].outcome IN
            ( r # None /\ ~RequestsTools(r) /\ pc[q] \notin {"read", "exec"} ) =>
                /\ k = Len(ToolsCalls(q))
                /\ FinalCalls(q) = << >>
                /\ Returned(q)
                /\ fired[q] = {"natural"}
                /\ pc[q] = "done" => result[q].sources = accumulated_sources[q]

\* C4: a query that completes without error ended by exactly one of natural
\* termination, loop detected, round cap reached; at no time have two of them
\* fired; a round 2 that repeats a round-1 invocation ends as loop detected,
\* and a query ends at the round cap only if round 2 repeated nothing.
C4_ExactlyOneTermination ==
    \A q \in Queries :
        /\ Cardinality(fired[q]) <= 1
        /\ fired[q] \subseteq {"natural", "loop", "cap"}
        /\ Returned(q) =>
             /\ Cardinality(fired[q]) = 1
             /\ Len(ToolsCalls(q)) = 2 =>
                  LET r1 == ToolsCalls(q)[1].outcome
                      r2 == ToolsCalls(q)[2].outcome
                  IN  /\ Repeats(r2, r1) => fired[q] = {"loop"}
                      /\ fired[q] = {"cap"} => ~Repeats(r2, r1)

\* round 2 repeated round 1's search with the input keys in another order and
\* the query ended as loop detected
C4_Witness ==
    /\ pc["qA"] = "done"
    /\ fired["qA"] = {"loop"}
    /\ \E i \in 1..Len(ToolsCalls("qA")[1].outcome.content) :
         /\ ToolsCalls("qA")[1].outcome.content[i].type = "tool_use"
         /\ ToolsCalls("qA")[1].outcome.content[i].input = InputA
    /\ \E i \in 1..Len(ToolsCalls("qA")[2].outcome.content) :
         /\ ToolsCalls("qA")[2].outcome.content[i].type = "tool_use"
         /\ ToolsCalls("qA")[2].outcome.content[i].input = InputA2
    /\ \A i \in 1..Len(ToolsCalls("qA")[2].outcome.content) :
         ToolsCalls("qA")[2].outcome.content[i].type = "tool_use" =>
            ToolsCalls("qA")[2].outcome.content[i].input = InputA2

\* C5: the accumulated source list is at all times the concatenation, in round
\* order, of the lists read from get_last_sources, one read per tools-enabled
\* generation call that returned, and the query returns that concatenation on
\* every termination path.
C5_SourcesAreConcatenatedReads ==
    \A q \in Queries :
        /\ accumulated_sources[q] = Flatten(source_reads[q])
        /\ pc[q] \in {"reset", "generate", "final", "return", "done"} =>
             Len(source_reads[q]) = Len(ToolsCalls(q))
        /\ pc[q] = "done" => result[q].sources = Flatten(source_reads[q])

\* two rounds read different non-empty source lists, then the query returned
C5_Witness ==
    /\ pc["qA"] = "done"
    /\ Len(source_reads["qA"]) = 2
    /\ source_reads["qA"][1] # << >>
    /\ source_reads["qA"][2] # << >>
    /\ source_reads["qA"][1] # source_reads["qA"][2]

\* C6: _detect_tool_loop(current, previous) returns true exactly when some
\* invocation of current and some invocation of previous have equal names and
\* the same input mapping (same keys and values, whatever the key order),
\* wherever they stand in the two lists; both lists are left as they were.
C6_DetectToolLoopIsAnyAnyMatch ==
    det.out # None =>
        /\ det.out = Bool(\E i \in 1..Len(det.given[1]), j \in 1..Len(det.given[2]) :
                            /\ det.given[1][i].name = det.given[2][j].name
                            /\ SameMapping(det.given[1][i].input, det.given[2][j].input))
        /\ det.current = det.given[1]
        /\ det.previous = det.given[2]

\* a loop is reported for a match between the second current invocation and
\* the first previous one, whose inputs differ only in key order, while the
\* invocations at equal positions do not match
C6_Witness ==
    /\ det.out = Bool(TRUE)
    /\ Len(det.current) = 2 /\ Len(det.previous) = 2
    /\ det.current[2].input = InputA /\ det.previous[1].input = InputA2
    /\ det.current[2].name = det.previous[1].name
    /\ det.current[1].name # det.previous[1].name
    /\ det.current[1].name # det.previous[2].name
    /\ ~SameMapping(det.current[2].input, det.previous[2].input)

\* C7: once a round has ended in loop detection or in natural termination,
\* the transcript is the one that was passed to that round's generation call;
\* after loop detection the final synthesis receives that same transcript and
\* the used-invocation history holds the invocations of the earlier rounds only.
C7_LoopOrNaturalRoundLeavesTranscript ==
    \A q \in Queries :
        fired[q] \cap {"loop", "natural"} # { } =>
            LET tc == ToolsCalls(q) IN
            /\ messages[q] = Last(tc).params.messages
            /\ "loop" \in fired[q] =>
                 /\ used_tool_calls[q] =
                       Flatten([ i \in 1..(Len(tc) - 1) |-> UsedTools(tc[i].outcome.content) ])
                 /\ FinalCalls(q) # << >> =>
                       Last(gen_calls[q]).params.messages = Last(tc).params.messages

\* round 2 requested two invocations, one of them a repetition, and the final
\* synthesis was made on the three messages round 2 had received
C7_Witness ==
    /\ pc["qA"] = "done"
    /\ fired["qA"] = {"loop"}
    /\ Len(last_used_tools) = 2
    /\ Len(used_tool_calls["qA"]) = 1
    /\ Len(Last(gen_calls["qA"]).params.messages) = 3

\* C8: after k completed tool-using rounds the transcript holds 1 + 2k
\* messages: while round r runs k is r - 1, and in every state k is the number
\* of rounds that appended; the final-synthesis call adds no message.
C8_TranscriptLength ==
    \A q \in Queries :
        pc[q] \notin {"idle", "off"} =>
            /\ Len(messages[q]) = 1 + 2 * completed[q]
            /\ pc[q] \in {"reset", "generate", "exec", "read"} =>
                 completed[q] = round_num[q] - 1
            /\ FinalCalls(q) # << >> =>
                 Len(messages[q]) = Len(Last(gen_calls[q]).params.messages)

\* two rounds completed and the final synthesis returned: five messages
C8_Witness ==
    /\ pc["qA"] = "done"
    /\ completed["qA"] = 2
    /\ Len(messages["qA"]) = 5
    /\ Len(FinalCalls("qA")) = 1

\* the tool results the Tool Executor gives for the tool-invocation blocks of
\* a response, in request order
ExpectedResults(r) ==
    LET tu == SelectSeq(r.content, LAMBDA b : b.type = "tool_use")
    IN  [ i \in 1..Len(tu) |-> [type |-> "tool_result", tool_use_id |-> tu[i].id,
                                content |-> ToolOutput(tu[i].name, tu[i].input)] ]

\* the transcript of q: the prompt, then per completed round the response
\* content and the batch of its results
ExpectedTranscript(q) ==
    << [role |-> "user", content |-> Str(Prompt(query[q].str))] >>
    \o Flatten([ i \in 1..completed[q] |->
                 LET r == ToolsCalls(q)[i].outcome
                 IN  << [role |-> "assistant", content |-> List(r.content)],
                        [role |-> "user", content |-> List(ExpectedResults(r))] >> ])

\* C9: at every point of a query the transcript is the initial user message
\* followed, per completed round in round order, by one assistant message
\* holding the response content verbatim and one user message holding all the
\* round's tool results as one list; roles alternate starting with user.
C9_TranscriptStructure ==
    \A q \in Queries :
        pc[q] \notin {"idle", "off"} =>
            /\ messages[q] = ExpectedTranscript(q)
            /\ \A i \in 1..Len(messages[q]) :
                 messages[q][i].role = IF i % 2 = 1 THEN "user" ELSE "assistant"
            /\ \A k \in 1..completed[q] :
                 Len(messages[q][2 * k + 1].content.list) =
                    Cardinality(ToolBlocks(ToolsCalls(q)[k].outcome))

\* a completed round whose response held a text block and two invocations:
\* the assistant message has three blocks, the next user message two results
C9_Witness ==
    /\ pc["qA"] = "generate"
    /\ round_num["qA"] = 2
    /\ Len(messages["qA"]) = 3
    /\ Len(messages["qA"][2].content.list) = 3
    /\ Len(messages["qA"][3].content.list) = 2

\* C10: once a tool has raised in a query, in whichever round, the query has
\* failed with that error: it returns nothing and add_exchange is not called
\* for it.
C10_ToolErrorAbortsQuery ==
    \A q \in Queries :
        ( \E i \in 1..Len(tool_calls[q]) : tool_calls[q][i].raised ) =>
            /\ pc[q] = "failed"
            /\ failure[q] = Str("tool")
            /\ result[q] = None
            /\ \A j \in 1..Len(session_calls) :
                 ~(session_calls[j].op = "add_exchange" /\ session_calls[j].by = q)

\* the second invocation of round 2 raised, in a query with a session
C10_Witness ==
    /\ pc["qA"] = "failed"
    /\ Truthy(session_id["qA"])
    /\ session_calls # << >>
    /\ Len(tool_calls["qA"]) >= 3
    /\ Last(tool_calls["qA"]).raised
    /\ Last(tool_calls["qA"]).round = 2
    /\ tool_results["qA"] # << >>

-----------------------------------------------------------------------------
\* the invocations requested in tools-enabled call k of query q, and those
\* requested in the calls before it
RequestedIn(q, k) == UsedTools(ToolsCalls(q)[k].outcome.content)
RequestedBefore(q, k) ==
    Flatten([j \in 1..(k - 1) |-> RequestedIn(q, j)])

\* C11: an invocation of a round is executed through the Tool Executor only
\* when the Loop Detector found no match between the round's invocations and
\* those of all prior rounds; in a round where a loop is detected none of the
\* round's invocations is executed.
C11_ExecutedOnlyWhenNoLoopDetected ==
    \A q \in Queries :
        \A i \in 1..Len(tool_calls[q]) :
            LET k == tool_calls[q][i].round IN
            ~_detect_tool_loop(RequestedIn(q, k), RequestedBefore(q, k))

\* C12: a response that signals tool use but holds no tool invocation ends
\* the query naturally in that round, and the answer is that response's text.
C12_ToolUseWithoutInvocationAnswersWithText ==
    \A q \in Queries :
        \A k \in 1..Len(ToolsCalls(q)) :
            LET r == ToolsCalls(q)[k].outcome IN
            ( /\ r # None
              /\ r.stop_reason = "tool_use"
              /\ ToolBlocks(r) = {}
              /\ pc[q] = "done" ) =>
                /\ fired[q] = {"natural"}
                /\ round_num[q] = k
                /\ result[q].answer = ResponseText(r)

\* query q made two tools-enabled calls, the first requested tools and the
\* second came back with no tool invocation, and the query has answered
UsedToolsThenNone(q) ==
    /\ pc[q] = "done"
    /\ Len(ToolsCalls(q)) = 2
    /\ RequestsTools(ToolsCalls(q)[1].outcome)
    /\ ToolsCalls(q)[2].outcome # None
    /\ ~RequestsTools(ToolsCalls(q)[2].outcome)

\* what generate_response_with_tools returned for response r
ReturnedText(r) ==
    IF r.stop_reason = "tool_use" THEN Str(Placeholder) ELSE ResponseText(r)

C14_EndTurnInRound1 ==
    \A q \in Queries :
        ( /\ gen_calls[q] # << >>
          /\ gen_calls[q][1].outcome # None
          /\ gen_calls[q][1].outcome.stop_reason = "end_turn" ) =>
            /\ Len(gen_calls[q]) = 1
            /\ tool_calls[q] = << >>
            /\ pc[q] \in {"read", "return", "done"}
            /\ response[q] = Str(gen_calls[q][1].outcome.content[1].text)
            /\ accumulated_sources[q] = << >>
            /\ pc[q] = "done" =>
                 result[q] = [answer  |-> Str(gen_calls[q][1].outcome.content[1].text),
                              sources |-> << >>]

\* a query with a stored history was answered directly in round 1
C14_Witness ==
    /\ pc["qA"] = "done"
    /\ Len(gen_calls["qA"]) = 1
    /\ gen_calls["qA"][1].outcome.stop_reason = "end_turn"
    /\ history["qA"] = Str("User: hi")
    /\ result["qA"] = [answer |-> Str("answer A"), sources |-> << >>]

-----------------------------------------------------------------------------
\* the operations of the log by collaborator
SessionOps == {"get_conversation_history", "add_exchange"}
GenerationOps == {"generate", "final"}
SourceOps == {"reset_sources", "get_last_sources"}
FinalOps == {"final", "final_returned", "final_raised"}

OpsOf(q, ops) == SelectSeq(events[q], LAMBDA e : e.op \in ops)

\* C15: for a query with a session id that returned an answer, the history
\* is read exactly once, before the first generation call, and the exchange
\* is stored exactly once, after the last generation call; neither happens
\* between the first and the last generation call.
C15_HistoryFirstExchangeLast ==
    \A q \in Queries :
        ( Truthy(session_id[q]) /\ pc[q] = "done" ) =>
            LET e == events[q]
                n == Len(e)
            IN  /\ n >= 3
                /\ e[1].op = "get_conversation_history"
                /\ e[n].op = "add_exchange"
                /\ \A i \in 2..(n - 1) : e[i].op \notin SessionOps
                /\ \E i \in 2..(n - 1) : e[i].op \in GenerationOps
                /\ Len(SelectSeq(session_calls, LAMBDA c : c.by = q)) = 2

\* a query of session s1 that went through two rounds and the final synthesis
C15_Witness ==
    /\ pc["qA"] = "done"
    /\ session_id["qA"] = Str("s1")
    /\ Len(OpsOf("qA", GenerationOps)) = 3
    /\ Len(OpsOf("qA", SessionOps)) = 2

\* the events of one round, in the order of lines 184-195
RoundCycle == << "reset_sources", "generate", "generate_returned", "get_last_sources" >>

\* C16: in every round reset_sources is called exactly once before the
\* round's generation call and get_last_sources exactly once after that call
\* has returned; neither is called for the final-synthesis call.
C16_ResetBeforeAndReadAfterEachRoundCall ==
    \A q \in Queries :
        LET e == OpsOf(q, SourceOps \cup FinalOps
                          \cup {"generate", "generate_returned", "generate_raised"})
        IN  \A i \in 1..Len(e) :
              IF e[i].op \in FinalOps
              THEN /\ e[i].op = "final" => (i - 1) % 4 = 0
                   /\ \A j \in i..Len(e) : e[j].op \in FinalOps
              ELSE /\ e[i].round = ((i - 1) \div 4) + 1
                   /\ \/ e[i].op = RoundCycle[((i - 1) % 4) + 1]
                      \/ (i - 1) % 4 = 2 /\ e[i].op = "generate_raised"

\* two rounds, each with its reset and its read, then the final synthesis
C16_Witness ==
    /\ pc["qA"] = "return"
    /\ Len(OpsOf("qA", {"reset_sources"})) = 2
    /\ Len(OpsOf("qA", {"get_last_sources"})) = 2
    /\ Len(OpsOf("qA", {"final_returned"})) = 1

\* the tool-invocation blocks of a response, in the order of the request
ToolUseBlocksOf(r) == SelectSeq(r.content, LAMBDA b : b.type = "tool_use")

\* the executions made for query q in round k
ExecutedIn(q, k) == SelectSeq(tool_calls[q], LAMBDA c : c.round = k)

\* C17: once generate_response_with_tools has returned for a tool-use
\* response with n tool-invocation blocks, each block was executed exactly
\* once with its own name and input, in the order of the request; n tool
\* results are recorded in the same order, the i-th carrying the id of the
\* i-th invocation; last_used_tools holds the n (name, input) pairs in order
\* and the recorded assistant content is the response content verbatim.
C17_ToolsExecutedAndRecordedInOrder ==
    \A q \in Queries :
        ( pc[q] = "read" /\ Last(gen_calls[q]).outcome.stop_reason = "tool_use" ) =>
            LET r  == Last(gen_calls[q]).outcome
                tu == ToolUseBlocksOf(r)
                ex == ExecutedIn(q, round_num[q])
            IN  /\ Len(ex) = Len(tu)
                /\ \A i \in 1..Len(tu) :
                     /\ ex[i].name = tu[i].name
                     /\ ex[i].input = tu[i].input
                     /\ ex[i].id = tu[i].id
                     /\ ~ex[i].raised
                /\ last_tool_results # None
                /\ Len(last_tool_results.list) = Len(tu)
                /\ \A i \in 1..Len(tu) :
                     /\ last_tool_results.list[i].type = "tool_result"
                     /\ last_tool_results.list[i].tool_use_id = tu[i].id
                     /\ last_tool_results.list[i].content =
                            ToolOutput(tu[i].name, tu[i].input)
                /\ last_used_tools =
                     [ i \in 1..Len(tu) |-> [name |-> tu[i].name, input |-> tu[i].input] ]
                /\ last_tool_response = List(r.content)

\* a response with a leading text block and two different invocations, in
\* round 2, has been executed
C17_Witness ==
    /\ pc["qA"] = "read"
    /\ round_num["qA"] = 2
    /\ Last(gen_calls["qA"]).outcome.stop_reason = "tool_use"
    /\ Len(Last(gen_calls["qA"]).outcome.content) = 3
    /\ Len(last_used_tools) = 2
    /\ last_used_tools[1] # last_used_tools[2]
    /\ last_tool_results.list[1].tool_use_id # last_tool_results.list[2].tool_use_id

\* s is an initial segment of t
IsPrefix(s, t) == Len(s) <= Len(t) /\ SubSeq(t, 1, Len(s)) = s

\* C18: every step of a query leaves the previous transcript a prefix of the
\* new transcript and the previous accumulated-source list a prefix of the
\* new one.
C18_TranscriptAndSourcesAppendOnly ==
    [][ \A q \in Queries :
          /\ IsPrefix(messages[q], messages'[q])
          /\ IsPrefix(accumulated_sources[q], accumulated_sources'[q]) ]_vars

\* two rounds were appended to the transcript and each contributed a source
C18_Witness ==
    /\ completed["qA"] = 2
    /\ Len(messages["qA"]) = 5
    /\ Len(accumulated_sources["qA"]) = 2
    /\ accumulated_sources["qA"][1] # accumulated_sources["qA"][2]

\* C19: when a generation call raises, in a round or in the final synthesis,
\* the error propagates out of the query: no answer is returned, the
\* exchange is not stored, and the failed call is not retried (it is the last
\* generation call of the query).
C19_GenerationErrorPropagates ==
    \A q \in Queries :
        \A k \in 1..Len(gen_calls[q]) :
            gen_calls[q][k].outcome = None =>
                /\ k = Len(gen_calls[q])
                /\ Last(events[q]).op \in {"generate_raised", "final_raised"}
                /\ pc[q] = "failed"
                /\ failure[q] = Str("generation")
                /\ result[q] = None
                /\ \A i \in 1..Len(session_calls) :
                     session_calls[i].by = q => session_calls[i].op # "add_exchange"

\* the final synthesis of a query of session s1 raised after two rounds
C19_Witness ==
    /\ pc["qA"] = "failed"
    /\ session_id["qA"] = Str("s1")
    /\ Len(gen_calls["qA"]) = 3
    /\ Last(gen_calls["qA"]).kind = "final"
    /\ Last(gen_calls["qA"]).outcome = None
    /\ Len(session_calls) = 1

\* the system prompt of a request for a given history: the static prompt,
\* followed by the history under its heading when there is one
SystemFor(h) ==
    IF h = None \/ h = Str("")
    THEN << SYSTEM_PROMPT >>
    ELSE << SYSTEM_PROMPT, "\n\nPrevious conversation:\n", h.str >>

\* C20: a final-synthesis request never contains tool schemas or a tool
\* choice, and it carries the transcript and the system prompt built from
\* the history.
C20_FinalRequestHasNoTools ==
    \A q \in Queries :
        \A k \in 1..Len(gen_calls[q]) :
            gen_calls[q][k].kind = "final" =>
                /\ gen_calls[q][k].params.tools = None
                /\ gen_calls[q][k].params.tool_choice = None
                /\ gen_calls[q][k].params.messages = messages[q]
                /\ gen_calls[q][k].params.system = SystemFor(history[q])

\* a final request with a five-message transcript and a stored history
C20_Witness ==
    /\ FinalCalls("qA") # << >>
    /\ Len(FinalCalls("qA")[1].params.messages) = 5
    /\ Len(FinalCalls("qA")[1].params.system) = 3
    /\ history["qA"] = Str("User: hi")

-----------------------------------------------------------------------------
\* C21: within one query no generation call is issued before the previous
\* one has returned; all tool executions of round k happen before the
\* generation call of round k+1 is issued, and that call receives a
\* transcript that already ends with round k's assistant message and batched
\* results.
C21_RoundsAreSequential ==
    \A q \in Queries :
        LET e  == events[q]
            tc == ToolsCalls(q)
        IN  /\ \A i, j \in 1..Len(e) :
                 ( j < i /\ e[i].op \in GenerationOps /\ e[j].op \in GenerationOps ) =>
                     \E m \in (j + 1)..(i - 1) :
                         e[m].op \in {"generate_returned", "final_returned"}
            /\ \A i, j \in 1..Len(e) :
                 ( /\ e[i].op = "generate"
                   /\ e[j].op = "execute_tool"
                   /\ e[j].round < e[i].round ) => j < i
            /\ \A k \in 2..Len(tc) :
                 LET r == tc[k - 1].outcome
                     m == tc[k].params.messages
                 IN  /\ Len(ExecutedIn(q, k - 1)) = Len(ToolUseBlocksOf(r))
                     /\ Len(m) = 2 * k - 1
                     /\ m[2 * k - 2] = [role |-> "assistant", content |-> List(r.content)]
                     /\ m[2 * k - 1] = [role |-> "user",
                                        content |-> List(ExpectedResults(r))]

\* the round-2 call was issued after the two executions of round 1
C21_Witness ==
    /\ Len(ToolsCalls("qA")) = 2
    /\ Len(ExecutedIn("qA", 1)) = 2
    /\ Len(ToolsCalls("qA")[2].params.messages) = 3
    /\ Last(events["qA"]).op = "generate"

\* the answer a query computes from its own generation responses
OwnAnswer(q) ==
    IF FinalCalls(q) # << >>
    THEN ResponseText(Last(FinalCalls(q)).outcome)
    ELSE ReturnedText(Last(ToolsCalls(q)).outcome)

\* C22: when two queries run concurrently on the same RAGSystem, in every
\* interleaving each query's termination decision, loop check, transcript and
\* answer are computed only from that query's own generation responses and
\* tool results.
C22_ConcurrentQueriesShareNoState ==
    \A q \in Queries :
        /\ "natural" \in fired[q] => ~RequestsTools(Last(ToolsCalls(q)).outcome)
        /\ "loop" \in fired[q] =>
              /\ Len(ToolsCalls(q)) = 2
              /\ Repeats(ToolsCalls(q)[2].outcome, ToolsCalls(q)[1].outcome)
        /\ pc[q] \notin {"off", "idle"} => messages[q] = ExpectedTranscript(q)
        /\ pc[q] = "done" => result[q].answer = OwnAnswer(q)

\* C23: every generation request of a query, tools-enabled or final, carries
\* a system prompt that starts with the fixed instruction block, followed by
\* the same prior-conversation text when the query has a history; when the
\* history is absent or empty the system prompt is the fixed block alone.
C23_SystemPromptCarriesHistory ==
    \A q \in Queries :
        \A k \in 1..Len(gen_calls[q]) :
            LET sys == gen_calls[q][k].params.system IN
            /\ sys[1] = SYSTEM_PROMPT
            /\ IF history[q] = None \/ history[q] = Str("")
               THEN Len(sys) = 1
               ELSE /\ Len(sys) = 3
                    /\ sys[2] = "\n\nPrevious conversation:\n"
                    /\ sys[3] = history[q].str

\* a query whose session has an empty history went through two rounds and
\* the final synthesis
C23_Witness ==
    /\ session_id["qA"] = Str("s1")
    /\ history["qA"] = Str("")
    /\ Len(ToolsCalls("qA")) = 2
    /\ Len(FinalCalls("qA")) = 1

\* C24: the transcript passed to the final synthesis has exactly 3 messages
\* when round 2 ended in loop detection and exactly 5 when the round cap was
\* reached; it is never the initial user message alone and its last message
\* is a user message holding a batch of tool results.
C24_FinalTranscriptIsThreeOrFiveMessages ==
    \A q \in Queries :
        \A k \in 1..Len(FinalCalls(q)) :
            LET m == FinalCalls(q)[k].params.messages IN
            /\ fired[q] \in {{"loop"}, {"cap"}}
            /\ "loop" \in fired[q] => Len(m) = 3 /\ round_num[q] = 2
            /\ "cap" \in fired[q] => Len(m) = 5
            /\ Len(m) > 1
            /\ Last(m).role = "user"
            /\ Last(m).content # None
            /\ Last(m).content.list # << >>
            /\ \A i \in 1..Len(Last(m).content.list) :
                 Last(m).content.list[i].type = "tool_result"

\* the final call after a loop in round 2 received three messages
C24_Witness ==
    /\ fired["qA"] = {"loop"}
    /\ Len(FinalCalls("qA")) = 1
    /\ Len(FinalCalls("qA")[1].params.messages) = 3
    /\ Len(ExecutedIn("qA", 2)) = 2

\* C25: every call of generate_response_with_tools clears last_used_tools,
\* last_tool_response and last_tool_results before it contacts the model:
\* after a call whose response requests no tool, last_used_tools is empty
\* whatever the previous round recorded, and an end_turn response in round 2
\* ends the query naturally instead of counting as tool use left over from
\* round 1.
C25_TrackingFieldsClearedByEachCall ==
    \A q \in Queries :
        LET tc == ToolsCalls(q) IN
        /\ ( tc # << >> /\ pc[q] = "failed" /\ Last(gen_calls[q]).kind = "tools"
             /\ Last(tc).outcome = None ) =>
               /\ last_used_tools = << >>
               /\ last_tool_response = None
               /\ last_tool_results = None
        /\ ( tc # << >> /\ pc[q] = "read" /\ ~RequestsTools(Last(tc).outcome) ) =>
               /\ last_used_tools = << >>
               /\ Last(tc).outcome.stop_reason = "end_turn" =>
                    last_tool_response = None /\ last_tool_results = None
        /\ ( tc # << >> /\ pc[q] \in {"return", "done", "final"}
             /\ Last(tc).outcome.stop_reason = "end_turn" ) =>
               /\ fired[q] = {"natural"}
               /\ FinalCalls(q) = << >>

\* round 1 recorded a tool use and the round-2 call came back end_turn
C25_Witness ==
    /\ pc["qA"] = "read"
    /\ round_num["qA"] = 2
    /\ used_tool_calls["qA"] # << >>
    /\ Last(gen_calls["qA"]).outcome.stop_reason = "end_turn"
    /\ last_used_tools = << >>

\* C26: loop detection never fires in round 1: the used-invocation history
\* is empty then and invocations are compared only with those of earlier
\* rounds, so identical invocations inside one round are not a loop; a
\* loop-detected termination occurs only in round 2.
C26_NoLoopInRound1 ==
    \A q \in Queries :
        /\ round_num[q] = 1 => used_tool_calls[q] = << >> /\ "loop" \notin fired[q]
        /\ "loop" \in fired[q] =>
              /\ round_num[q] = 2
              /\ Len(ToolsCalls(q)) = 2
              /\ Repeats(ToolsCalls(q)[2].outcome, ToolsCalls(q)[1].outcome)

\* round 1 requested the same invocation twice and the loop went on to round 2
C26_Witness ==
    /\ round_num["qA"] = 2
    /\ fired["qA"] = {}
    /\ Len(used_tool_calls["qA"]) = 2
    /\ used_tool_calls["qA"][1] = used_tool_calls["qA"][2]

\* C27: when a round ends in loop detection, the sources read in that round
\* stay in the returned source list, although the round's assistant message
\* and tool results are not added to the transcript.
C27_LoopRoundSourcesAreKept ==
    \A q \in Queries :
        ( "loop" \in fired[q] /\ pc[q] = "done" ) =>
            /\ Len(source_reads[q]) = 2
            /\ result[q].sources = source_reads[q][1] \o source_reads[q][2]
            /\ Len(messages[q]) = 3
            /\ messages[q] = ToolsCalls(q)[2].params.messages

\* the loop-detected round had read a source, and it was returned
C27_Witness ==
    /\ pc["qA"] = "done"
    /\ fired["qA"] = {"loop"}
    /\ source_reads["qA"][2] # << >>
    /\ Len(result["qA"].sources) = Len(source_reads["qA"][1]) + Len(source_reads["qA"][2])
    /\ Len(messages["qA"]) = 3

\* query q has returned an answer or has been aborted by an exception
Terminated(q) == pc[q] \in {"done", "failed"}

\* C28: provided every generation call and every tool call returns or
\* raises, every query terminates, and it makes at most 3 generation calls
\* (at most 2 tools-enabled ones and at most 1 final synthesis) and executes
\* tools in at most 2 rounds.
C28_EveryQueryTerminates ==
    /\ \A q \in Queries : pc[q] = "idle" ~> Terminated(q)
    /\ [](\A q \in Queries :
            /\ Len(gen_calls[q]) <= 3
            /\ Len(ToolsCalls(q)) <= 2
            /\ Len(FinalCalls(q)) <= 1
            /\ \A i \in 1..Len(tool_calls[q]) : tool_calls[q][i].round \in 1..2)

\* a query has terminated after three generation calls and tool executions in
\* both rounds
C28_Witness ==
    /\ Terminated("qA")
    /\ Len(gen_calls["qA"]) = 3
    /\ ExecutedIn("qA", 1) # << >>
    /\ ExecutedIn("qA", 2) # << >>

\* C29: after a tool execution raises in a round, no later invocation of
\* that round is executed and no further generation call (next round or final
\* synthesis) is made in that query; when the failure is in round 2 the
\* results obtained in round 1 are discarded with it.
C29_NothingFollowsAToolError ==
    \A q \in Queries :
        \A i \in 1..Len(tool_calls[q]) :
            tool_calls[q][i].raised =>
                /\ i = Len(tool_calls[q])
                /\ Last(events[q]) = Event("execute_tool", tool_calls[q][i].round)
                /\ Len(gen_calls[q]) = tool_calls[q][i].round
                /\ Last(gen_calls[q]).kind = "tools"
                /\ FinalCalls(q) = << >>
                /\ Len(source_reads[q]) = tool_calls[q][i].round - 1
                /\ result[q] = None

\* the first of two invocations of round 2 raised, after round 1 had
\* contributed a source and two messages
C29_Witness ==
    /\ pc["qA"] = "failed"
    /\ tool_calls["qA"] # << >>
    /\ Last(tool_calls["qA"]).raised
    /\ Last(tool_calls["qA"]).round = 2
    /\ Len(ExecutedIn("qA", 2)) = 1
    /\ Len(ToolUseBlocksOf(Last(gen_calls["qA"]).outcome)) = 2
    /\ accumulated_sources["qA"] # << >>
    /\ Len(messages["qA"]) = 3
    /\ result["qA"] = None

\* C30: generate_final_response never calls the Tool Executor and leaves
\* last_used_tools, last_tool_response and last_tool_results unchanged, even
\* if its response reports tool_use; the text of the response's first content
\* block is returned as the answer.
C30_FinalResponseFrame ==
    [][ \A q \in Queries :
          ( pc[q] = "final" /\ pc'[q] # "final" ) =>
              /\ last_used_tools' = last_used_tools
              /\ last_tool_response' = last_tool_response
              /\ last_tool_results' = last_tool_results
              /\ tool_calls' = tool_calls
              /\ tm_sources' = tm_sources
              /\ pc'[q] \in {"return", "failed"}
              /\ pc'[q] = "return" =>
                   response'[q] = ResponseText(Last(gen_calls'[q]).outcome) ]_vars

\* the final response reported tool_use after a text block: the text was
\* returned and the fields still hold what round 2 recorded
C30_Witness ==
    /\ pc["qA"] = "done"
    /\ FinalCalls("qA") # << >>
    /\ Last(gen_calls["qA"]).outcome.stop_reason = "tool_use"
    /\ result["qA"].answer = Str("final answer")
    /\ Len(last_used_tools) = 2
    /\ last_tool_results # None
    /\ Len(tool_calls["qA"]) = Len(ExecutedIn("qA", 1)) + Len(ExecutedIn("qA", 2))


-----------------------------------------------------------------------------
\* the sources emitted by a sequence of tool executions, in execution order
RECURSIVE EmittedBy(_)
EmittedBy(calls) ==
    IF calls = << >> THEN << >>
    ELSE (IF Head(calls).raised THEN << >>
          ELSE ToolSources(Head(calls).name, Head(calls).input))
         \o EmittedBy(Tail(calls))

\* C31: with two queries interleaved on one RAGSystem, the source list each
\* query returns is exactly the sources emitted by the tool executions made
\* for that query, in order: none is lost to the other query's reset_sources
\* and none comes from the other query's executions.
C31_ReturnedSourcesAreTheQuerysOwn ==
    \A q \in Queries :
        pc[q] = "done" => result[q].sources = EmittedBy(tool_calls[q])


-----------------------------------------------------------------------------
\* the add_exchange calls made for query q
ExchangesOf(q) ==
    SelectSeq(session_calls, LAMBDA c : c.op = "add_exchange" /\ c.by = q)

\* C32: when a query with a session id has returned, add_exchange was called
\* for its session with the caller's original query text, the text whose
\* prompt-wrapped form starts the transcript, and with exactly the answer
\* text the query returns.
C32_ExchangeHoldsOriginalQueryAndAnswer ==
    \A q \in Queries :
        ( Truthy(session_id[q]) /\ pc[q] = "done" ) =>
            /\ Len(ExchangesOf(q)) = 1
            /\ LET x == ExchangesOf(q)[1] IN
               /\ x.session_id = session_id[q]
               /\ x.query = query[q]
               /\ messages[q][1].content = Str(Prompt(x.query.str))
               /\ x.answer = result[q].answer

\* a query with a session id returned the final synthesis after two rounds
\* of tool use, and the exchange is stored
C32_Witness ==
    /\ pc["qA"] = "done"
    /\ session_id["qA"] = Str("s1")
    /\ Len(messages["qA"]) = 5
    /\ result["qA"].answer = Str("final answer")
    /\ ExchangesOf("qA") # << >>


-----------------------------------------------------------------------------
\* the session-manager calls made for query q
SessionCallsOf(q) == SelectSeq(session_calls, LAMBDA c : c.by = q)

\* C33: a query called without a session id makes no call of
\* get_conversation_history and no call of add_exchange, and every generation
\* call it makes, tools-enabled or final, receives an absent history: the
\* system prompt of the request is the fixed block alone.
C33_NoSessionNoHistoryNoExchange ==
    \A q \in Queries :
        ( pc[q] \notin {"off", "idle"} /\ session_id[q] = None ) =>
            /\ SessionCallsOf(q) = << >>
            /\ OpsOf(q, SessionOps) = << >>
            /\ history[q] = None
            /\ \A k \in 1..Len(gen_calls[q]) :
                   gen_calls[q][k].params.system = SystemContent(None)

\* a query without a session id returned after two tools-enabled calls and
\* the final synthesis
C33_Witness ==
    /\ pc["qA"] = "done"
    /\ session_id["qA"] = None
    /\ Len(ToolsCalls("qA")) = 2
    /\ Len(FinalCalls("qA")) = 1


-----------------------------------------------------------------------------
\* the response to the first request of generate_response, None while there
\* is none or when the request raised
SingleFirstResponse ==
    IF single.create_calls = << >> THEN None ELSE single.create_calls[1].outcome

\* the first response was handed to _handle_tool_execution
SingleHandled ==
    /\ SingleFirstResponse # None
    /\ SingleFirstResponse.stop_reason = "tool_use"
    /\ single.tool_manager # None

\* the executions the blocks of response r ask for, in request order
ExpectedExecutions(r) ==
    LET tu == ToolUseBlocksOf(r)
    IN  [ i \in 1..Len(tu) |-> [name |-> tu[i].name, input |-> tu[i].input,
                                id |-> tu[i].id, raised |-> FALSE] ]

\* C34: generate_response never makes more than two model calls.  When the
\* first response is not tool_use or no tool manager was given, it makes
\* exactly one model call and executes no tool.  Otherwise, once it has
\* returned, each tool_use block was executed exactly once in request order
\* and exactly one follow-up call was made, without tools, on the messages
\* [user query, assistant content, one user message of the batched results],
\* the results message being left out when the response held no tool_use
\* block.
C34_SingleRoundPathCalls ==
    LET calls == single.create_calls
        r == SingleFirstResponse
    IN  /\ Len(calls) <= 2
        /\ ( single.pc \in {"done", "failed"} /\ ~SingleHandled ) =>
              /\ Len(calls) = 1
              /\ single.executed = << >>
        /\ ( single.pc = "exec" /\ Len(calls) = 1 ) => SingleHandled
        /\ SingleHandled =>
              /\ IsPrefix(single.executed, ExpectedExecutions(r))
                    \/ ( single.failure = Str("tool")
                         /\ IsPrefix(SubSeq(single.executed, 1, Len(single.executed) - 1),
                                     ExpectedExecutions(r)) )
              /\ Len(calls) = 2 => single.executed = ExpectedExecutions(r)
        /\ ( single.pc = "done" /\ SingleHandled ) =>
              /\ Len(calls) = 2
              /\ single.executed = ExpectedExecutions(r)
              /\ calls[2].params.tools = None
              /\ calls[2].params.tool_choice = None
              /\ calls[2].params.system = calls[1].params.system
              /\ calls[2].params.messages =
                    << [role |-> "user", content |-> single.query],
                       [role |-> "assistant", content |-> List(r.content)] >>
                    \o ( IF ToolUseBlocksOf(r) = << >> THEN << >>
                         ELSE << [role |-> "user",
                                  content |-> List(ExpectedResults(r))] >> )

\* generate_response was given tools and a tool manager, the first response
\* held a text block and two tool_use blocks, both were executed and the
\* follow-up call returned
C34_Witness ==
    /\ single.pc = "done"
    /\ single.tool_manager # None
    /\ single.tools = List(ToolDefinitions)
    /\ Len(single.create_calls) = 2
    /\ Len(single.create_calls[1].outcome.content) = 3
    /\ Len(single.executed) = 2
    /\ Len(single.create_calls[2].params.messages) = 3
    /\ single.create_calls[1].params.tools = List(ToolDefinitions)

\* the first response signalled tool_use without a tool_use block: the
\* follow-up request carries two messages
C34_WitnessNoBlock ==
    /\ single.pc = "done"
    /\ Len(single.create_calls) = 2
    /\ single.executed = << >>
    /\ Len(single.create_calls[2].params.messages) = 2

=============================================================================
